---- MODULE Spec2Model ----
(***************************************************************************)
(* State machine of the TodoApp component (src/unnamed/part_000).          *)
(*                                                                         *)
(* Strings are sequences of one-character strings.  Every handler reads    *)
(* the state of the render it was created in; React re-renders after each  *)
(* handler, so a handler invoked from the screen reads the current state.  *)
(* The one exception is the "Delete" button of the confirmation prompt:    *)
(* its onPress closure is created inside deleteTodo and keeps the todos    *)
(* array of that render until the prompt is answered.                      *)
(*                                                                         *)
(* Alert.alert returns at once and the prompt is put up by the native side *)
(* afterwards; the source does nothing to keep other handlers from running *)
(* in between (a second finger, a press already queued), so the model lets *)
(* every handler run while prompts are open.                               *)
(*                                                                         *)
(* Date.now() has millisecond resolution: handlers that run within the     *)
(* same millisecond read the same value of the clock.                      *)
(*                                                                         *)
(* op, budget and deleted are bookkeeping of the model: the handler that   *)
(* ran last, the number of handler invocations still explored, and the     *)
(* ids removed by an accepted prompt.                                      *)
(***************************************************************************)
EXTENDS Integers, Sequences, FiniteSets

VARIABLES
    todos,              \* useState<Todo[]>
    inputText,          \* draft text of the add panel
    selectedCategory,   \* draft category
    selectedPriority,   \* draft priority
    filter,             \* status filter
    searchQuery,        \* search box
    editingId,          \* id of the row being edited, or Null
    editingText,        \* edit buffer
    showAddForm,        \* add panel open
    mounted,            \* the mount effect that loads the samples has run
    now,                \* the wall clock read by Date.now() / new Date()
    alerts,             \* stack of open confirmation prompts (closures)
    op,                 \* the handler that ran last, with its argument
    budget,             \* handler invocations still to be explored
    deleted             \* ids whose deletion has been accepted (history)

vars == <<todos, inputText, selectedCategory, selectedPriority, filter,
          searchQuery, editingId, editingText, showAddForm, mounted, now,
          alerts, op, budget, deleted>>

(***************************************************************************)
(* Bounds of the model.                                                    *)
(***************************************************************************)
MaxLen == 2       \* longest text typed into a text box
StartTime == 10   \* clock value (ms) when the component mounts
MaxTicks == 1     \* milliseconds the clock advances
MaxEvents == 3    \* handler invocations explored by Spec
StoreEvents == 5  \* handler invocations explored by SpecStore
AddEvents == 6    \* handler invocations explored by SpecAdd
ViewEvents == 4   \* handler invocations explored by SpecView

Chars == {" ", "A"}

Texts == UNION {[1..n -> Chars] : n \in 0..MaxLen}

(***************************************************************************)
(* Program constants.                                                      *)
(***************************************************************************)
Categories == {"personal", "work", "shopping", "health"}

Priorities == {"low", "medium", "high"}

Filters == {"all", "active", "completed"}

Null == <<"null">>

(***************************************************************************)
(* String functions of the JavaScript runtime.                             *)
(***************************************************************************)
Whitespace == {" ", "\t", "\n"}

RECURSIVE TrimStart(_)
TrimStart(s) ==
    IF s # <<>> /\ Head(s) \in Whitespace THEN TrimStart(Tail(s)) ELSE s

RECURSIVE TrimEnd(_)
TrimEnd(s) ==
    IF s # <<>> /\ s[Len(s)] \in Whitespace
    THEN TrimEnd(SubSeq(s, 1, Len(s) - 1))
    ELSE s

\* Variants of trim: none at all, and leading whitespace only.
TrimNone(s) == s

TrimStartOnly(s) == TrimStart(s)

Trim(s) == TrimEnd(TrimStart(s))

UpperCase == <<"A", "B", "C", "D", "E", "F", "G", "H", "I", "J", "K", "L", "M",
               "N", "O", "P", "Q", "R", "S", "T", "U", "V", "W", "X", "Y", "Z">>

LowerCase == <<"a", "b", "c", "d", "e", "f", "g", "h", "i", "j", "k", "l", "m",
               "n", "o", "p", "q", "r", "s", "t", "u", "v", "w", "x", "y", "z">>

LowerMap ==
    [c \in {UpperCase[k] : k \in 1..26} |->
        LowerCase[CHOOSE k \in 1..26 : UpperCase[k] = c]]

LowerChar(c) == IF c \in DOMAIN LowerMap THEN LowerMap[c] ELSE c

ToLowerCase(s) == [i \in 1..Len(s) |-> LowerChar(s[i])]

Includes(s, q) ==
    \E i \in 0..(Len(s) - Len(q)) : SubSeq(s, i + 1, i + Len(q)) = q

DigitChars == <<"0", "1", "2", "3", "4", "5", "6", "7", "8", "9">>

RECURSIVE ToString(_)
ToString(n) ==
    IF n < 10 THEN <<DigitChars[n + 1]>>
    ELSE ToString(n \div 10) \o <<DigitChars[(n % 10) + 1]>>

(***************************************************************************)
(* The sample tasks loaded by the mount effect.                            *)
(***************************************************************************)
sampleTodos(date) == <<
    [id |-> <<"1">>,
     text |-> <<"C", "o", "m", "p", "l", "e", "t", "e", " ", "p", "r", "o", "j",
                "e", "c", "t", " ", "p", "r", "e", "s", "e", "n", "t", "a", "t",
                "i", "o", "n">>,
     completed |-> FALSE, category |-> "work", priority |-> "high",
     createdAt |-> date],
    [id |-> <<"2">>,
     text |-> <<"B", "u", "y", " ", "g", "r", "o", "c", "e", "r", "i", "e", "s",
                " ", "f", "o", "r", " ", "t", "h", "e", " ", "w", "e", "e", "k">>,
     completed |-> FALSE, category |-> "shopping", priority |-> "medium",
     createdAt |-> date],
    [id |-> <<"3">>,
     text |-> <<"M", "o", "r", "n", "i", "n", "g", " ", "w", "o", "r", "k", "o",
                "u", "t">>,
     completed |-> TRUE, category |-> "health", priority |-> "low",
     createdAt |-> date] >>

(***************************************************************************)
(* Derived view.                                                           *)
(***************************************************************************)
\* Variant: the active tab passes every task.
matchesFilterLoose(todo, f) ==
    \/ f = "all"
    \/ f = "active"
    \/ (f = "completed" /\ todo.completed)

matchesFilter(todo, f) ==
    \/ f = "all"
    \/ (f = "active" /\ ~todo.completed)
    \/ (f = "completed" /\ todo.completed)

matchesSearch(todo, q) == Includes(ToLowerCase(todo.text), ToLowerCase(q))

filteredTodosOf(ts, f, q) ==
    SelectSeq(ts, LAMBDA todo : matchesFilter(todo, f) /\ matchesSearch(todo, q))

filteredTodos == filteredTodosOf(todos, filter, searchQuery)

\* The rows on screen: one per element of filteredTodos.
VisibleIds == {filteredTodos[i].id : i \in DOMAIN filteredTodos}

\* The inline editor is rendered in the row whose id is editingId.
EditorShown == editingId \in VisibleIds

(***************************************************************************)
(* Pure parts of the handlers.                                             *)
(***************************************************************************)
\* Variant: the draft is stored as typed.
newTodoRawText ==
    [id |-> ToString(now), text |-> inputText, completed |-> FALSE,
     category |-> selectedCategory, priority |-> selectedPriority,
     createdAt |-> now]

newTodo == [id |-> ToString(now), text |-> Trim(inputText), completed |-> FALSE,
            category |-> selectedCategory, priority |-> selectedPriority,
            createdAt |-> now]

\* Variant: the checkbox sets completed instead of flipping it.
toggledSet(ts, id) ==
    [i \in 1..Len(ts) |->
        IF ts[i].id = id THEN [ts[i] EXCEPT !.completed = TRUE] ELSE ts[i]]

toggled(ts, id) ==
    [i \in 1..Len(ts) |->
        IF ts[i].id = id THEN [ts[i] EXCEPT !.completed = ~ts[i].completed]
        ELSE ts[i]]

without(ts, id) == SelectSeq(ts, LAMBDA todo : todo.id # id)

\* Variant: the id test is missing, every task gets the new text.
editedAll(ts, id, text) ==
    [i \in 1..Len(ts) |-> [ts[i] EXCEPT !.text = Trim(text)]]

edited(ts, id, text) ==
    [i \in 1..Len(ts) |->
        IF ts[i].id = id THEN [ts[i] EXCEPT !.text = Trim(text)] ELSE ts[i]]

Op(name, id) == [name |-> name, id |-> id]

\* Bookkeeping common to all handlers.
Handler(name, id) ==
    /\ budget' = budget - 1
    /\ op' = Op(name, id)

\* The screen is up and takes a user event.
Ready == mounted /\ budget > 0

(***************************************************************************)
(* Initial state: the first render, before the mount effect.               *)
(***************************************************************************)
InitWith(events) ==
    /\ todos = <<>>
    /\ inputText = <<>>
    /\ selectedCategory = "personal"
    /\ selectedPriority = "medium"
    /\ filter = "all"
    /\ searchQuery = <<>>
    /\ editingId = Null
    /\ editingText = <<>>
    /\ showAddForm = FALSE
    /\ mounted = FALSE
    /\ now = StartTime
    /\ alerts = <<>>
    /\ op = Op("init", Null)
    /\ deleted = {}
    /\ budget = events

(***************************************************************************)
(* Actions.                                                                *)
(***************************************************************************)
MountEffect ==
    /\ ~mounted
    /\ mounted' = TRUE
    /\ todos' = sampleTodos(now)
    /\ op' = Op("mount", Null)
    /\ UNCHANGED <<inputText, selectedCategory, selectedPriority, filter,
                   searchQuery, editingId, editingText, showAddForm, now,
                   alerts, budget, deleted>>

Tick ==
    /\ mounted
    /\ now < StartTime + MaxTicks
    /\ now' = now + 1
    /\ UNCHANGED <<todos, inputText, selectedCategory, selectedPriority, filter,
                   searchQuery, editingId, editingText, showAddForm, mounted,
                   alerts, op, budget, deleted>>

addTodo ==
    /\ Handler("addTodo", Null)
    /\ IF Trim(inputText) # <<>>
       THEN /\ todos' = <<newTodo>> \o todos
            /\ inputText' = <<>>
            /\ showAddForm' = FALSE
       ELSE UNCHANGED <<todos, inputText, showAddForm>>
    /\ UNCHANGED <<selectedCategory, selectedPriority, filter, searchQuery,
                   editingId, editingText, mounted, now, alerts, deleted>>

toggleTodo(id) ==
    /\ Handler("toggleTodo", id)
    /\ todos' = toggled(todos, id)
    /\ UNCHANGED <<inputText, selectedCategory, selectedPriority, filter,
                   searchQuery, editingId, editingText, showAddForm, mounted,
                   now, alerts, deleted>>

deleteTodo(id) ==
    /\ Handler("deleteTodo", id)
    /\ alerts' = Append(alerts, [id |-> id, todos |-> todos])
    /\ UNCHANGED <<todos, inputText, selectedCategory, selectedPriority, filter,
                   searchQuery, editingId, editingText, showAddForm, mounted,
                   now, deleted>>

AlertDelete ==
    /\ LET top == alerts[Len(alerts)] IN
          /\ Handler("alertDelete", top.id)
          /\ todos' = without(top.todos, top.id)
          /\ deleted' = deleted \cup {top.id}
    /\ alerts' = SubSeq(alerts, 1, Len(alerts) - 1)
    /\ UNCHANGED <<inputText, selectedCategory, selectedPriority, filter,
                   searchQuery, editingId, editingText, showAddForm, mounted,
                   now>>

AlertCancel ==
    /\ Handler("alertCancel", alerts[Len(alerts)].id)
    /\ alerts' = SubSeq(alerts, 1, Len(alerts) - 1)
    /\ UNCHANGED <<todos, inputText, selectedCategory, selectedPriority, filter,
                   searchQuery, editingId, editingText, showAddForm, mounted,
                   now, deleted>>

startEdit(todo) ==
    /\ Handler("startEdit", todo.id)
    /\ editingId' = todo.id
    /\ editingText' = todo.text
    /\ UNCHANGED <<todos, inputText, selectedCategory, selectedPriority, filter,
                   searchQuery, showAddForm, mounted, now, alerts, deleted>>

setEditingText(text) ==
    /\ Handler("setEditingText", Null)
    /\ editingText' = text
    /\ UNCHANGED <<todos, inputText, selectedCategory, selectedPriority, filter,
                   searchQuery, editingId, showAddForm, mounted, now, alerts,
                   deleted>>

saveEdit ==
    /\ Handler("saveEdit", Null)
    /\ IF Trim(editingText) # <<>>
       THEN todos' = edited(todos, editingId, editingText)
       ELSE todos' = todos
    /\ editingId' = Null
    /\ editingText' = <<>>
    /\ UNCHANGED <<inputText, selectedCategory, selectedPriority, filter,
                   searchQuery, showAddForm, mounted, now, alerts, deleted>>

cancelEdit ==
    /\ Handler("cancelEdit", Null)
    /\ editingId' = Null
    /\ editingText' = <<>>
    /\ UNCHANGED <<todos, inputText, selectedCategory, selectedPriority, filter,
                   searchQuery, showAddForm, mounted, now, alerts, deleted>>

setInputText(text) ==
    /\ Handler("setInputText", Null)
    /\ inputText' = text
    /\ UNCHANGED <<todos, selectedCategory, selectedPriority, filter,
                   searchQuery, editingId, editingText, showAddForm, mounted,
                   now, alerts, deleted>>

setSelectedCategory(c) ==
    /\ Handler("setSelectedCategory", Null)
    /\ selectedCategory' = c
    /\ UNCHANGED <<todos, inputText, selectedPriority, filter, searchQuery,
                   editingId, editingText, showAddForm, mounted, now, alerts,
                   deleted>>

setSelectedPriority(p) ==
    /\ Handler("setSelectedPriority", Null)
    /\ selectedPriority' = p
    /\ UNCHANGED <<todos, inputText, selectedCategory, filter, searchQuery,
                   editingId, editingText, showAddForm, mounted, now, alerts,
                   deleted>>

closeAddForm ==
    /\ Handler("closeAddForm", Null)
    /\ showAddForm' = FALSE
    /\ UNCHANGED <<todos, inputText, selectedCategory, selectedPriority, filter,
                   searchQuery, editingId, editingText, mounted, now, alerts,
                   deleted>>

\* Variant: the floating button also leaves edit mode.
toggleAddFormAbandon ==
    /\ Handler("toggleAddForm", Null)
    /\ showAddForm' = ~showAddForm
    /\ editingId' = Null
    /\ editingText' = <<>>
    /\ UNCHANGED <<todos, inputText, selectedCategory, selectedPriority, filter,
                   searchQuery, mounted, now, alerts, deleted>>

toggleAddForm ==
    /\ Handler("toggleAddForm", Null)
    /\ showAddForm' = ~showAddForm
    /\ UNCHANGED <<todos, inputText, selectedCategory, selectedPriority, filter,
                   searchQuery, editingId, editingText, mounted, now, alerts,
                   deleted>>

setFilter(f) ==
    /\ Handler("setFilter", Null)
    /\ filter' = f
    /\ UNCHANGED <<todos, inputText, selectedCategory, selectedPriority,
                   searchQuery, editingId, editingText, showAddForm, mounted,
                   now, alerts, deleted>>

setSearchQuery(q) ==
    /\ Handler("setSearchQuery", Null)
    /\ searchQuery' = q
    /\ UNCHANGED <<todos, inputText, selectedCategory, selectedPriority, filter,
                   editingId, editingText, showAddForm, mounted, now, alerts,
                   deleted>>

(***************************************************************************)
(* User events: a handler runs only from a control that is on screen.      *)
(***************************************************************************)
PressCheckbox ==
    /\ Ready
    /\ \E i \in DOMAIN filteredTodos : toggleTodo(filteredTodos[i].id)

\* The delete button is not rendered in the row being edited.
PressDelete ==
    /\ Ready
    /\ \E i \in DOMAIN filteredTodos :
          /\ editingId # filteredTodos[i].id
          /\ deleteTodo(filteredTodos[i].id)

\* The prompt opened last is on top and is answered first.
AnswerDelete == Ready /\ alerts # <<>> /\ AlertDelete

AnswerCancel == Ready /\ alerts # <<>> /\ AlertCancel

\* The row being edited shows the editor instead of the pressable text.
PressRow ==
    /\ Ready
    /\ \E i \in DOMAIN filteredTodos :
          /\ editingId # filteredTodos[i].id
          /\ startEdit(filteredTodos[i])

TypeEdit == Ready /\ EditorShown /\ \E text \in Texts : setEditingText(text)

PressSave == Ready /\ EditorShown /\ saveEdit

PressCancelEdit == Ready /\ EditorShown /\ cancelEdit

TypeDraft == Ready /\ showAddForm /\ \E text \in Texts : setInputText(text)

PickCategory ==
    Ready /\ showAddForm /\ \E c \in Categories : setSelectedCategory(c)

PickPriority ==
    Ready /\ showAddForm /\ \E p \in Priorities : setSelectedPriority(p)

PressAdd == Ready /\ showAddForm /\ addTodo

PressCancelAdd == Ready /\ showAddForm /\ closeAddForm

PressFab == Ready /\ toggleAddForm

PickFilter == Ready /\ \E f \in Filters : setFilter(f)

TypeSearch == Ready /\ \E q \in Texts : setSearchQuery(q)

Next ==
    \/ MountEffect
    \/ Tick
    \/ PressCheckbox
    \/ PressDelete
    \/ AnswerDelete
    \/ AnswerCancel
    \/ PressRow
    \/ TypeEdit
    \/ PressSave
    \/ PressCancelEdit
    \/ TypeDraft
    \/ PickCategory
    \/ PickPriority
    \/ PressAdd
    \/ PressCancelAdd
    \/ PressFab
    \/ PickFilter
    \/ TypeSearch

Init == InitWith(MaxEvents)

Spec == Init /\ [][Next]_vars

(***************************************************************************)
(* The three parts of the screen on their own, each explored for more      *)
(* handler invocations than Spec.  First the operations on the store:      *)
(* create, toggle, delete with its prompt, and the inline editor.          *)
(***************************************************************************)
InitStore == InitWith(StoreEvents)

NextStore ==
    \/ MountEffect
    \/ PressCheckbox
    \/ PressDelete
    \/ AnswerDelete
    \/ AnswerCancel
    \/ PressRow
    \/ TypeEdit
    \/ PressSave
    \/ PressCancelEdit
    \/ TypeDraft
    \/ PressAdd
    \/ PressFab

SpecStore == InitStore /\ [][NextStore]_vars

(***************************************************************************)
(* The add panel with the clock.                                           *)
(***************************************************************************)
InitAdd == InitWith(AddEvents)

NextAdd ==
    \/ MountEffect
    \/ Tick
    \/ PressFab
    \/ PressCancelAdd
    \/ TypeDraft
    \/ PickCategory
    \/ PickPriority
    \/ PressAdd

SpecAdd == InitAdd /\ [][NextAdd]_vars

(***************************************************************************)
(* The list with its search box and filter tabs: tasks are checked off and *)
(* renamed, then searched and filtered.                                    *)
(***************************************************************************)
InitView == InitWith(ViewEvents)

NextView ==
    \/ MountEffect
    \/ PressCheckbox
    \/ PressRow
    \/ TypeEdit
    \/ PressSave
    \/ PickFilter
    \/ TypeSearch

SpecView == InitView /\ [][NextView]_vars

(***************************************************************************)
(* Vocabulary of the properties.                                           *)
(***************************************************************************)
\* The step is an invocation of the handler called name.
Ran(name) == budget' = budget - 1 /\ op'.name = name

IdsOf(ts) == {ts[i].id : i \in DOMAIN ts}

ElemsOf(ts) == {ts[i] : i \in DOMAIN ts}

IsBlank(s) == \A k \in 1..Len(s) : s[k] \in Whitespace

IsTrimmed(s) == s # <<>> /\ s[1] \notin Whitespace /\ s[Len(s)] \notin Whitespace

\* t is s without its leading and trailing whitespace.
IsTrimOf(t, s) ==
    /\ t = <<>> \/ IsTrimmed(t)
    /\ \E i \in 0..Len(s) : \E j \in i..Len(s) :
          /\ t = SubSeq(s, i + 1, j)
          /\ \A k \in 1..i : s[k] \in Whitespace
          /\ \A k \in (j + 1)..Len(s) : s[k] \in Whitespace

\* Ids a handler can be given: the samples, the clock values, and one id
\* that no task ever has.
IdUniverse ==
    {<<"1">>, <<"2">>, <<"3">>, <<"9">>}
        \cup {ToString(t) : t \in StartTime..(StartTime + MaxTicks)}

(***************************************************************************)
(* C1: no two tasks in the store have the same id.                         *)
(***************************************************************************)
C1_UniqueIds ==
    \A i, j \in DOMAIN todos : i # j => todos[i].id # todos[j].id

(***************************************************************************)
(* C2: declining the prompt leaves the task sequence unchanged; accepting  *)
(* it removes the task, and a task whose deletion was accepted is in no    *)
(* later visible sequence, whatever the status filter and search query.    *)
(***************************************************************************)
C2_DeleteOnlyThroughPrompt ==
    [][ /\ Ran("alertCancel") => todos' = todos
        /\ Ran("deleteTodo") => todos' = todos
        /\ Ran("alertDelete") => op'.id \notin IdsOf(todos')
        /\ \A id \in deleted' : \A f \in Filters : \A q \in Texts :
              id \notin IdsOf(filteredTodosOf(todos', f, q)) ]_vars

(***************************************************************************)
(* C3: addTodo with an empty or whitespace-only draft changes neither the  *)
(* tasks nor the draft text, category, priority or the add-panel flag.     *)
(***************************************************************************)
C3_BlankCreateIsNoOp ==
    [][ (Ran("addTodo") /\ IsBlank(inputText)) =>
            UNCHANGED <<todos, inputText, selectedCategory, selectedPriority,
                        showAddForm>> ]_vars

C3_Witness ==
    /\ op.name = "addTodo"
    /\ inputText # <<>> /\ IsBlank(inputText)
    /\ showAddForm

(***************************************************************************)
(* C4: addTodo with a non-blank draft prepends exactly one task holding    *)
(* the trimmed draft, completed false and the selected category and        *)
(* priority; the old tasks follow unchanged; the draft is cleared and the  *)
(* panel closed; under filter all and an empty query the new task is the   *)
(* first visible one.                                                      *)
(***************************************************************************)
C4_CreatePrepends ==
    [][ (Ran("addTodo") /\ ~IsBlank(inputText)) =>
            /\ Len(todos') = Len(todos) + 1
            /\ Tail(todos') = todos
            /\ IsTrimOf(Head(todos').text, inputText)
            /\ Head(todos').text # <<>>
            /\ Head(todos').completed = FALSE
            /\ Head(todos').category = selectedCategory
            /\ Head(todos').priority = selectedPriority
            /\ inputText' = <<>>
            /\ showAddForm' = FALSE
            /\ Head(filteredTodosOf(todos', "all", <<>>)) = Head(todos') ]_vars

C4_Witness ==
    /\ op.name = "addTodo"
    /\ Len(todos) = 4
    /\ todos[1].text = <<"A">>
    /\ todos[1].category = "work" /\ todos[1].priority = "high"
    /\ inputText = <<>> /\ ~showAddForm

(***************************************************************************)
(* C5: toggleTodo(id) flips completed of the tasks with that id and        *)
(* changes nothing else; a second toggleTodo(id) restores the store; for   *)
(* an id no task has, the store is unchanged.                              *)
(***************************************************************************)
C5_ToggleFlipsAndUndoes ==
    [][ Ran("toggleTodo") =>
            /\ Len(todos') = Len(todos)
            /\ \A i \in DOMAIN todos :
                  IF todos[i].id = op'.id
                  THEN todos'[i] = [todos[i] EXCEPT !.completed = ~todos[i].completed]
                  ELSE todos'[i] = todos[i]
            /\ toggled(todos', op'.id) = todos
            /\ \A id \in IdUniverse :
                  /\ toggled(toggled(todos, id), id) = todos
                  /\ id \notin IdsOf(todos) => toggled(todos, id) = todos
            /\ UNCHANGED <<inputText, selectedCategory, selectedPriority,
                           filter, searchQuery, editingId, editingText,
                           showAddForm, alerts>> ]_vars

C5_Witness ==
    /\ op.name = "toggleTodo"
    /\ \E i \in DOMAIN todos :
          todos[i].id = op.id /\ todos[i].id = <<"3">> /\ ~todos[i].completed

(***************************************************************************)
(* C6: saveEdit with a blank buffer leaves every task unchanged; with a    *)
(* non-blank buffer it sets the text of the tasks whose id is editingId to *)
(* the trimmed buffer and changes no other task; either way editingId is   *)
(* null and the buffer empty afterwards.                                   *)
(***************************************************************************)
C6_CommitEdit ==
    [][ Ran("saveEdit") =>
            /\ IsBlank(editingText) => todos' = todos
            /\ ~IsBlank(editingText) =>
                  /\ Len(todos') = Len(todos)
                  /\ \A i \in DOMAIN todos :
                        IF todos[i].id = editingId
                        THEN /\ IsTrimOf(todos'[i].text, editingText)
                             /\ todos'[i] = [todos[i] EXCEPT !.text = todos'[i].text]
                        ELSE todos'[i] = todos[i]
            /\ editingId' = Null
            /\ editingText' = <<>> ]_vars

C6_Witness ==
    /\ op.name = "saveEdit"
    /\ editingId = Null /\ editingText = <<>>
    /\ \E i \in DOMAIN todos : todos[i].id = <<"2">> /\ todos[i].text = <<"A">>

(***************************************************************************)
(* C7: every stored task has a non-empty text without leading or trailing  *)
(* whitespace.                                                             *)
(***************************************************************************)
C7_StoredTextTrimmed == \A i \in DOMAIN todos : IsTrimmed(todos[i].text)

C7_Witness ==
    /\ op.name = "startEdit"
    /\ \E i \in DOMAIN todos :
          /\ todos[i].id \notin {<<"1">>, <<"2">>, <<"3">>}
          /\ todos[i].id = editingId
          /\ todos[i].text = <<"A", "A">>

(***************************************************************************)
(* C8: for every search query the active view and the completed view of    *)
(* the store are disjoint and together hold exactly the tasks of the all   *)
(* view.                                                                   *)
(***************************************************************************)
C8_ActiveCompletedPartition ==
    \A q \in Texts \cup {searchQuery} :
        LET active == ElemsOf(filteredTodosOf(todos, "active", q))
            completed == ElemsOf(filteredTodosOf(todos, "completed", q))
            all == ElemsOf(filteredTodosOf(todos, "all", q))
        IN  /\ active \cap completed = {}
            /\ active \cup completed = all

C8_Witness ==
    /\ searchQuery # <<>>
    /\ filter = "active"
    /\ filteredTodos # <<>>
    /\ filteredTodosOf(todos, "completed", searchQuery) # <<>>

(***************************************************************************)
(* C9 as stated: pressing the floating button while a task is being edited *)
(* leaves edit mode (editingId null, buffer empty) and changes no task.    *)
(***************************************************************************)
C9_ToggleAbandonsEdit ==
    [][ (Ran("toggleAddForm") /\ editingId # Null) =>
            /\ editingId' = Null
            /\ editingText' = <<>>
            /\ todos' = todos ]_vars

(***************************************************************************)
(* C9 amended: pressing the floating button while a task is being edited   *)
(* only flips the add-panel flag; editingId, the buffer and the tasks are  *)
(* unchanged, so the edit stays in progress.                               *)
(***************************************************************************)
C9_ToggleKeepsEdit ==
    [][ (Ran("toggleAddForm") /\ editingId # Null) =>
            /\ showAddForm' = ~showAddForm
            /\ UNCHANGED <<editingId, editingText, todos>> ]_vars

C9_Witness ==
    /\ op.name = "toggleAddForm"
    /\ showAddForm
    /\ editingId = <<"1">>
    /\ editingText = <<"A", " ">>

(***************************************************************************)
(* C10: accepting a prompt removes exactly the task with the prompt's id   *)
(* from the store as it is at that moment.                                 *)
(***************************************************************************)
C10_AcceptRemovesFromCurrentStore ==
    [][ Ran("alertDelete") =>
            todos' = SelectSeq(todos, LAMBDA todo : todo.id # op'.id) ]_vars

====
